---------------------------- MODULE Spec2Model ----------------------------
(***************************************************************************)
(* Model of the BWSN analysis-module gateway firmware: the sensor white    *)
(* list (white_list.h), the telemetry store (analysis_module.h) and the    *)
(* pairing state machine driven by button and GAP events (main.c).         *)
(*                                                                         *)
(* Four specifications are given.  SpecReg drives the white-list API with  *)
(* arbitrary arguments, as a unit test of white_list.h would.  Spec is the *)
(* device: app_main, the button callbacks and ble_gap_event, with the      *)
(* radio transport, the sleep controller and the indicator modelled by the *)
(* calls the firmware makes on them, each handler one step.  SpecRace adds *)
(* the exit presses during which the host task handles an event.  SpecTemp *)
(* drives analysis_module.h with every pair of bytes.                      *)
(***************************************************************************)
EXTENDS Integers, Sequences, FiniteSets, TLC

(***************************************************************************)
(* Bounds of the model.                                                    *)
(***************************************************************************)
\* the public peer addresses have the values 1..MaxAddrVal
MaxAddrVal == 2

(***************************************************************************)
(* Program constants.                                                      *)
(***************************************************************************)
white_list_size == 3
UUID_TEMPERATURE == 6153
UUID_PULSEOX == 6178
UUID_ACTIVITY == 6206
UUID_DEVICE_INFO == 6154
BLE_UUID_TYPE_16 == 16
UINT8_MOD == 256
RSSI_ACCEPTABLE_LVL == -50
\* DEEP_SLEEP_CYCLE_TIME and the scan durations, in ms
SCAN_DURATION_MS == 1000
BLE_HS_FOREVER == 2147483647
\* one degree, in the units of temp_data
TEMP_UNIT == 256
TEMP_MAX_SCORE == 3
\* app_packet.h
HEADER_SIZE == 2
DATA_HEADER == 1
REG_HEADER == 2
DEL_HEADER == 3

VARIABLES
    \* white_list.h, ordinary memory
    wl_is_initialised,
    white_list_len,
    \* white_list.h, RTC memory
    white_list,
    \* analysis_module.h, RTC memory: the stored sample, in units of 1/256
    temp_data,
    \* main.c, ordinary memory
    g_device_mode,
    \* sleep controller: the device is in deep sleep; the timer wake-up source
    \* has been enabled since the last boot
    halted,
    timer_wakeup,
    \* indicator: the state the last led call left
    led,
    \* radio transport: the discovery procedure, the controller's address
    \* allow-list, the connection
    disc,
    ctrl_wl,
    conn,
    \* history: the operation or event handled last, its arguments and result
    last

wlvars == <<wl_is_initialised, white_list_len, white_list>>
devvars == <<temp_data, g_device_mode, halted, timer_wakeup, led, disc, ctrl_wl, conn>>
vars == <<wlvars, devvars, last>>

(***************************************************************************)
(* Values.                                                                 *)
(***************************************************************************)
WlIdx == 0 .. (white_list_size - 1)

\* ble_addr_t: an address-type tag and a 48-bit value
\* (type 0: public, type 1: random); the peers are the public addresses
\* 1..MaxAddrVal and the random address 1
Addrs == [type : {0}, val : 1 .. MaxAddrVal] \cup {[type |-> 1, val |-> 1]}

\* the zero-initialised address of a slot that was never assigned
ZeroAddr == [type |-> 0, val |-> 0]

\* ble_uuid16_t: the uuid type tag and the 16-bit value
Uuid16(v) == [type |-> BLE_UUID_TYPE_16, value |-> v]

\* the uuids handed to the white-list API: the three categories, a 16-bit
\* uuid that is no category, and a category value under another type tag
Uuids ==
    { Uuid16(UUID_TEMPERATURE), Uuid16(UUID_PULSEOX), Uuid16(UUID_ACTIVITY),
      Uuid16(UUID_DEVICE_INFO),
      [type |-> 32, value |-> UUID_TEMPERATURE] }

NoUuid == [type |-> 0, value |-> 0]

\* the white list as the initialiser of white_list[] gives it
InitWhiteList ==
    [i \in WlIdx |->
        [device_uuid |-> Uuid16(IF i = 0 THEN UUID_TEMPERATURE
                                ELSE IF i = 1 THEN UUID_PULSEOX
                                ELSE UUID_ACTIVITY),
         device_addr |-> ZeroAddr,
         addr_is_empty |-> TRUE]]

(***************************************************************************)
(* white_list.h                                                            *)
(***************************************************************************)
uuids16_are_equal(uuid1, uuid2) ==
    IF uuid1.type = uuid2.type
    THEN (IF uuid1.value = uuid2.value THEN TRUE ELSE FALSE)
    ELSE FALSE

addrs_are_equal(addr1, addr2) ==
    IF addr1.type = addr2.type
    THEN (IF addr1.val = addr2.val THEN TRUE ELSE FALSE)
    ELSE FALSE

\* the index at which a for-loop over the slots returns: the least index of
\* S, or -1 when the loop runs to its end
FirstIdx(S) == IF S = {} THEN -1 ELSE CHOOSE i \in S : \A j \in S : i <= j

get_white_list_len_counts_empty ==
    Cardinality({i \in WlIdx : white_list[i].addr_is_empty})

\* the number of entries counted by get_white_list_len
get_white_list_len == Cardinality({i \in WlIdx : ~white_list[i].addr_is_empty})

\* the result of a white-list call that returns ESP_FAIL
WlFail ==
    [ret |-> "ESP_FAIL", idx |-> -1,
     white_list |-> white_list, white_list_len |-> white_list_len,
     wl_is_initialised |-> wl_is_initialised]

wl_init_no_count(initialised) ==
    IF initialised THEN WlFail
    ELSE [WlFail EXCEPT !.ret = "ESP_OK",
                        !.white_list_len = 0,
                        !.wl_is_initialised = TRUE]

\* init_white_list, given the value it reads from wl_is_initialised
wl_init(initialised) ==
    IF initialised THEN WlFail
    ELSE [WlFail EXCEPT !.ret = "ESP_OK",
                        !.white_list_len = get_white_list_len,
                        !.wl_is_initialised = TRUE]

init_white_list == wl_init(wl_is_initialised)

deinit_white_list_keeps_len ==
    IF ~wl_is_initialised THEN WlFail
    ELSE [WlFail EXCEPT !.ret = "ESP_OK",
                        !.wl_is_initialised = FALSE]

deinit_white_list ==
    IF ~wl_is_initialised THEN WlFail
    ELSE [WlFail EXCEPT !.ret = "ESP_OK",
                        !.white_list_len = 0,
                        !.wl_is_initialised = FALSE]

push_to_white_list_no_count(uuid, addr) ==
    LET i == FirstIdx({k \in WlIdx :
                 white_list[k].addr_is_empty
                 /\ uuids16_are_equal(white_list[k].device_uuid, uuid)})
    IN  IF ~wl_is_initialised THEN WlFail
        ELSE IF white_list_len = white_list_size THEN WlFail
        ELSE IF i # -1
             THEN [WlFail EXCEPT
                     !.ret = "ESP_OK", !.idx = i,
                     !.white_list = [white_list EXCEPT
                                        ![i].device_addr = addr,
                                        ![i].addr_is_empty = FALSE]]
             ELSE WlFail

push_to_white_list_any_slot(uuid, addr) ==
    LET i == FirstIdx({k \in WlIdx :
                 uuids16_are_equal(white_list[k].device_uuid, uuid)})
    IN  IF ~wl_is_initialised THEN WlFail
        ELSE IF white_list_len = white_list_size THEN WlFail
        ELSE IF i # -1
             THEN [WlFail EXCEPT
                     !.ret = "ESP_OK", !.idx = i,
                     !.white_list = [white_list EXCEPT
                                        ![i].device_addr = addr,
                                        ![i].addr_is_empty = FALSE],
                     !.white_list_len = (white_list_len + 1) % UINT8_MOD]
             ELSE WlFail

push_to_white_list(uuid, addr) ==
    LET i == FirstIdx({k \in WlIdx :
                 white_list[k].addr_is_empty
                 /\ uuids16_are_equal(white_list[k].device_uuid, uuid)})
    IN  IF ~wl_is_initialised THEN WlFail
        ELSE IF white_list_len = white_list_size THEN WlFail
        ELSE IF i # -1
             THEN [WlFail EXCEPT
                     !.ret = "ESP_OK", !.idx = i,
                     !.white_list = [white_list EXCEPT
                                        ![i].device_addr = addr,
                                        ![i].addr_is_empty = FALSE],
                     !.white_list_len = (white_list_len + 1) % UINT8_MOD]
             ELSE WlFail

remove_from_white_list_by_addr(addr) ==
    LET i == FirstIdx({k \in WlIdx :
                 ~white_list[k].addr_is_empty
                 /\ addrs_are_equal(white_list[k].device_addr, addr)})
    IN  IF ~wl_is_initialised THEN WlFail
        ELSE IF white_list_len = 0 THEN WlFail
        ELSE IF i # -1
             THEN [WlFail EXCEPT
                     !.ret = "ESP_OK", !.idx = i,
                     !.white_list = [white_list EXCEPT ![i].addr_is_empty = TRUE],
                     !.white_list_len = (white_list_len - 1) % UINT8_MOD]
             ELSE WlFail

remove_from_white_list_by_uuid16(uuid) ==
    LET i == FirstIdx({k \in WlIdx :
                 ~white_list[k].addr_is_empty
                 /\ uuids16_are_equal(white_list[k].device_uuid, uuid)})
    IN  IF ~wl_is_initialised THEN WlFail
        ELSE IF white_list_len = 0 THEN WlFail
        ELSE IF i # -1
             THEN [WlFail EXCEPT
                     !.ret = "ESP_OK", !.idx = i,
                     !.white_list = [white_list EXCEPT ![i].addr_is_empty = TRUE],
                     !.white_list_len = (white_list_len - 1) % UINT8_MOD]
             ELSE WlFail

uuid_is_interesting(uuid) ==
    IF ~wl_is_initialised THEN FALSE
    ELSE IF white_list_len = white_list_size THEN FALSE
    ELSE \E i \in WlIdx :
            white_list[i].addr_is_empty
            /\ uuids16_are_equal(white_list[i].device_uuid, uuid)

white_list_contains_addr_skip_first(addr) ==
    IF ~wl_is_initialised THEN FALSE
    ELSE IF white_list_len = 0 THEN FALSE
    ELSE \E i \in WlIdx \ {0} :
            ~white_list[i].addr_is_empty
            /\ addrs_are_equal(white_list[i].device_addr, addr)

white_list_contains_addr_no_flag(addr) ==
    IF ~wl_is_initialised THEN FALSE
    ELSE IF white_list_len = 0 THEN FALSE
    ELSE \E i \in WlIdx : addrs_are_equal(white_list[i].device_addr, addr)

white_list_contains_addr(addr) ==
    IF ~wl_is_initialised THEN FALSE
    ELSE IF white_list_len = 0 THEN FALSE
    ELSE \E i \in WlIdx :
            ~white_list[i].addr_is_empty
            /\ addrs_are_equal(white_list[i].device_addr, addr)

white_list_is_empty == white_list_len = 0


\* the addresses get_addr_white_list copies out, in slot order
get_addr_white_list ==
    IF ~wl_is_initialised THEN [ret |-> "ESP_FAIL", addrs |-> {}]
    ELSE IF white_list_len = 0 THEN [ret |-> "ESP_FAIL", addrs |-> {}]
    ELSE [ret |-> "ESP_OK",
          addrs |-> {white_list[i].device_addr :
                        i \in {k \in WlIdx : ~white_list[k].addr_is_empty}}]

(***************************************************************************)
(* analysis_module.h                                                       *)
(***************************************************************************)
\* push_temp_data
push_temp_data(temp) == temp_data' = temp

get_temp_score_lower_first(temp) ==
    IF temp > 35 * TEMP_UNIT /\ temp <= 39 * TEMP_UNIT THEN 1
    ELSE IF temp > 36 * TEMP_UNIT /\ temp <= 38 * TEMP_UNIT THEN 0
    ELSE IF temp > 39 * TEMP_UNIT THEN 2
    ELSE IF temp <= 35 * TEMP_UNIT THEN 3
    ELSE -1

get_temp_score_from_36(temp) ==
    IF temp >= 36 * TEMP_UNIT /\ temp <= 38 * TEMP_UNIT THEN 0
    ELSE IF temp > 35 * TEMP_UNIT /\ temp <= 39 * TEMP_UNIT THEN 1
    ELSE IF temp > 39 * TEMP_UNIT THEN 2
    ELSE IF temp <= 35 * TEMP_UNIT THEN 3
    ELSE -1

\* get_temp_score, of a temperature in units of 1/256
get_temp_score(temp) ==
    IF temp > 36 * TEMP_UNIT /\ temp <= 38 * TEMP_UNIT THEN 0
    ELSE IF temp > 35 * TEMP_UNIT /\ temp <= 39 * TEMP_UNIT THEN 1
    ELSE IF temp > 39 * TEMP_UNIT THEN 2
    ELSE IF temp <= 35 * TEMP_UNIT THEN 3
    ELSE -1

liferate_half(critical_meas_score) ==
    LET critical_max_score == TEMP_MAX_SCORE
    IN  IF critical_meas_score >= 0
           /\ 10 * critical_meas_score < 5 * critical_max_score
        THEN "NORMAL"
        ELSE IF 10 * critical_meas_score >= 5 * critical_max_score
                /\ 10 * critical_meas_score < 7 * critical_max_score
        THEN "CRITICAL"
        ELSE IF 10 * critical_meas_score >= 7 * critical_max_score
                /\ critical_meas_score <= critical_max_score
        THEN "VERY_CRITICAL"
        ELSE "UNDEFINED"

\* the liferate start_analysis returns for a score: res_score is the score
\* divided by critical_max_score, compared here after multiplying both sides
\* by 10 * critical_max_score
liferate(critical_meas_score) ==
    LET critical_max_score == TEMP_MAX_SCORE
    IN  IF critical_meas_score >= 0
           /\ 10 * critical_meas_score < 3 * critical_max_score
        THEN "NORMAL"
        ELSE IF 10 * critical_meas_score >= 3 * critical_max_score
                /\ 10 * critical_meas_score < 7 * critical_max_score
        THEN "CRITICAL"
        ELSE IF 10 * critical_meas_score >= 7 * critical_max_score
                /\ critical_meas_score <= critical_max_score
        THEN "VERY_CRITICAL"
        ELSE "UNDEFINED"

\* start_analysis, of the stored sample
start_analysis == liferate(get_temp_score(temp_data))

\* bit k of byte b
Bit(b, k) == (b \div (2 ^ k)) % 2

\* the sum the loop of convert_temp_data_to_float adds, for i = from .. 7,
\* in units of 1/256: bit (7-i) of temp_lsb divided by (2 << i)
RECURSIVE FractionFrom(_, _)
FractionFrom(temp_lsb, i) ==
    IF i > 7 THEN 0
    ELSE Bit(temp_lsb, 7 - i) * (TEMP_UNIT \div (2 * (2 ^ i)))
         + FractionFrom(temp_lsb, i + 1)

convert_temp_data_to_float_unsigned(temp_msb, temp_lsb) ==
    (temp_msb % 128) * TEMP_UNIT + FractionFrom(temp_lsb, 0)

convert_temp_data_to_float(temp_msb, temp_lsb) ==
    LET ret_val == (temp_msb % 128) * TEMP_UNIT + FractionFrom(temp_lsb, 0)
    IN  ret_val * (IF Bit(temp_msb, 7) = 1 THEN -1 ELSE 1)

(***************************************************************************)
(* app_packet.h (not among the sources; modelled from the specification    *)
(* of the packet codec)                                                    *)
(***************************************************************************)
\* a packet of header h and body b, as manufacturer data
Packet(h, b) == <<h % 256, h \div 256>> \o b

\* open_packet: -1 when the declared length is smaller than the header or
\* exceeds the buffer, else the header and the rest as body
open_packet(mfg_data, mfg_data_len) ==
    IF mfg_data_len < HEADER_SIZE \/ mfg_data_len > Len(mfg_data)
    THEN [rc |-> -1, header |-> 0, buffer |-> <<>>]
    ELSE [rc |-> 0,
          header |-> mfg_data[1] + 256 * mfg_data[2],
          buffer |-> SubSeq(mfg_data, HEADER_SIZE + 1, mfg_data_len)]

(***************************************************************************)
(* Inputs of the device.                                                   *)
(***************************************************************************)
\* signal strengths: just below the floor, and at it
RssiLevels == {RSSI_ACCEPTABLE_LVL - 1, RSSI_ACCEPTABLE_LVL}

\* telemetry bodies: 37.2 (0x25 0x33), and a body that is one byte short
TempBodies == { <<37, 51>>, <<39>> }

\* the bytes an uninitialised buffer byte may hold
StaleBytes == {0, 165}

\* what an advertisement carries: its list of 16-bit service uuids and its
\* manufacturer data
Payload(uuids16, mfg_data) == [uuids16 |-> uuids16, mfg_data |-> mfg_data]

\* enrolment offers: of one category, of several after a uuid that is no
\* category
RegPayloads ==
    { Payload(<<Uuid16(UUID_TEMPERATURE)>>, Packet(REG_HEADER, <<>>)),
      Payload(<<Uuid16(UUID_DEVICE_INFO), Uuid16(UUID_PULSEOX),
                Uuid16(UUID_TEMPERATURE)>>, Packet(REG_HEADER, <<>>)),
      Payload(<<Uuid16(UUID_ACTIVITY)>>, Packet(REG_HEADER, <<>>)) }

\* an enrolment offer of no category
NoUuidPayloads ==
    { Payload(<<>>, Packet(REG_HEADER, <<>>)) }

\* a removal offer, and manufacturer data shorter than a header
DelPayloads ==
    { Payload(<<Uuid16(UUID_TEMPERATURE)>>, Packet(DEL_HEADER, <<>>)) }

\* and no manufacturer data at all
ShortPayloads ==
    { Payload(<<Uuid16(UUID_TEMPERATURE)>>, <<REG_HEADER>>),
      Payload(<<Uuid16(UUID_TEMPERATURE)>>, <<>>) }

TempPayloads ==
    { Payload(<<>>, Packet(DATA_HEADER, b)) : b \in TempBodies }

\* the payloads every address sends, and those one address sends
Payloads == RegPayloads \cup DelPayloads \cup TempPayloads
OnePayloads == NoUuidPayloads \cup ShortPayloads

\* the payloads that are also received below the signal-strength floor
WeakPayloads ==
    { Payload(<<Uuid16(UUID_TEMPERATURE)>>, Packet(REG_HEADER, <<>>)),
      Payload(<<Uuid16(UUID_TEMPERATURE)>>, Packet(DEL_HEADER, <<>>)),
      Payload(<<>>, Packet(DATA_HEADER, <<37, 51>>)) }

Adv(addr, rssi, p) ==
    [addr |-> addr, rssi |-> rssi, uuids16 |-> p.uuids16, mfg_data |-> p.mfg_data]

\* the address that also sends the payloads no handler's treatment of which
\* depends on the address beyond its being registered or not
OneAddr == [type |-> 0, val |-> 1]

Advs ==
    { Adv(a, RSSI_ACCEPTABLE_LVL, p) : a \in Addrs, p \in Payloads }
    \cup { Adv(OneAddr, RSSI_ACCEPTABLE_LVL, p) : p \in OnePayloads }
    \cup { Adv(OneAddr, RSSI_ACCEPTABLE_LVL - 1, p) : p \in WeakPayloads }

\* the values an uninitialised ble_addr_t may hold
StaleAddrs == Addrs \cup {ZeroAddr}

\* the allow-lists ble_gap_wl_set may read from the buffer wl_addrs:
\* get_addr_white_list reserves white_list_len bytes and writes
\* white_list_len addresses of 7 bytes to it, so that what lies past the
\* reservation belongs to another owner of the heap and may have been
\* overwritten when the buffer is read; one entry is taken to be affected,
\* and to read as the zero address
wl_addrs ==
    LET copied == get_addr_white_list.addrs
    IN  {copied} \cup {(copied \ {a}) \cup {ZeroAddr} : a \in copied}

(***************************************************************************)
(* The radio transport, the sleep controller and the indicator.            *)
(***************************************************************************)
DiscOff == [active |-> FALSE, filter_policy |-> 0, duration |-> 0]
NoConn == [state |-> "none", peer |-> ZeroAddr]

\* ble_gap_disc(duration, params): the discovery procedure runs with params
ble_gap_disc(duration_ms, filter_policy) ==
    [active |-> TRUE, filter_policy |-> filter_policy, duration |-> duration_ms]

\* esp_deep_sleep_start: the device halts, the radio is powered down
esp_deep_sleep_start ==
    /\ halted' = TRUE
    /\ disc' = DiscOff
    /\ conn' = NoConn

(***************************************************************************)
(* History.                                                                *)
(***************************************************************************)
NoOp ==
    [op |-> "none", uuid |-> NoUuid, addr |-> ZeroAddr, ret |-> "ESP_OK",
     idx |-> -1, after |-> -1, rssi |-> 0, uuids16 |-> <<>>, mfg_data |-> <<>>,
     status |-> 0, cause |-> "none", connect |-> FALSE, calls |-> <<>>]

\* the slot cleared by the operation handled last, or -1
Removed ==
    IF last.op \in {"remove_by_addr", "remove_by_uuid16", "connect"}
       /\ last.ret = "ESP_OK"
    THEN last.idx ELSE -1

\* the record of a white-list call
Op(op, uuid, addr, r) ==
    [NoOp EXCEPT !.op = op, !.uuid = uuid, !.addr = addr,
                 !.ret = r.ret, !.idx = r.idx, !.after = Removed]

\* the effect of a white-list call on the white list's own variables
WlApply(r) ==
    /\ wl_is_initialised' = r.wl_is_initialised
    /\ white_list_len' = r.white_list_len
    /\ white_list' = r.white_list

(***************************************************************************)
(* main.c: the handlers of advertisements.                                 *)
(***************************************************************************)
\* the outcome of a handler that returns without acting
Ignore == [connect |-> FALSE, wl |-> [WlFail EXCEPT !.ret = "none"], calls |-> <<>>]

\* the calls of the accepting branch of connect_if_interesting and of
\* delete_if_reachable, in the order of the code
RegCalls_connect_first == <<"ble_gap_connect", "ble_gap_disc_cancel", "push_to_white_list">>
RegCalls == <<"ble_gap_disc_cancel", "push_to_white_list", "ble_gap_connect">>
DelCalls == <<"ble_gap_disc_cancel", "ble_gap_connect">>

connect_if_interesting_no_addr_check(adv) ==
    LET uuid_in_inter_index ==
            FirstIdx({i \in 0 .. (Len(adv.uuids16) - 1) :
                         uuid_is_interesting(adv.uuids16[i + 1])})
        pkt == open_packet(adv.mfg_data, Len(adv.mfg_data))
    IN  IF adv.rssi < RSSI_ACCEPTABLE_LVL THEN Ignore
        ELSE IF uuid_in_inter_index # -1
        THEN IF pkt.rc = -1 THEN Ignore
             ELSE IF pkt.header = REG_HEADER
             THEN [connect |-> TRUE,
                   wl |-> push_to_white_list(adv.uuids16[uuid_in_inter_index + 1],
                                             adv.addr),
                   calls |-> RegCalls]
             ELSE Ignore
        ELSE Ignore

connect_if_interesting(adv) ==
    LET uuid_in_inter_index ==
            FirstIdx({i \in 0 .. (Len(adv.uuids16) - 1) :
                         uuid_is_interesting(adv.uuids16[i + 1])})
        pkt == open_packet(adv.mfg_data, Len(adv.mfg_data))
    IN  IF adv.rssi < RSSI_ACCEPTABLE_LVL THEN Ignore
        ELSE IF uuid_in_inter_index # -1
                /\ (~white_list_contains_addr(adv.addr) \/ white_list_is_empty)
        THEN IF pkt.rc = -1 THEN Ignore
             ELSE IF pkt.header = REG_HEADER
             THEN [connect |-> TRUE,
                   wl |-> push_to_white_list(adv.uuids16[uuid_in_inter_index + 1],
                                             adv.addr),
                   calls |-> RegCalls]
             ELSE Ignore
        ELSE Ignore

delete_if_reachable_any_header(adv) ==
    LET pkt == open_packet(adv.mfg_data, Len(adv.mfg_data))
    IN  IF adv.rssi < RSSI_ACCEPTABLE_LVL THEN Ignore
        ELSE IF ~white_list_contains_addr(adv.addr) THEN Ignore
        ELSE IF pkt.rc = -1 THEN Ignore
        ELSE [Ignore EXCEPT !.connect = TRUE, !.calls = DelCalls]

delete_if_reachable_no_rssi_check(adv) ==
    LET pkt == open_packet(adv.mfg_data, Len(adv.mfg_data))
    IN  IF ~white_list_contains_addr(adv.addr) THEN Ignore
        ELSE IF pkt.rc = -1 THEN Ignore
        ELSE IF pkt.header = DEL_HEADER THEN [Ignore EXCEPT !.connect = TRUE, !.calls = DelCalls]
        ELSE Ignore

delete_if_reachable(adv) ==
    LET pkt == open_packet(adv.mfg_data, Len(adv.mfg_data))
    IN  IF adv.rssi < RSSI_ACCEPTABLE_LVL THEN Ignore
        ELSE IF ~white_list_contains_addr(adv.addr) THEN Ignore
        ELSE IF pkt.rc = -1 THEN Ignore
        ELSE IF pkt.header = DEL_HEADER THEN [Ignore EXCEPT !.connect = TRUE, !.calls = DelCalls]
        ELSE Ignore

\* the samples the idle branch may store for adv: none when the packet does
\* not open or is no telemetry; a body byte the packet does not carry is
\* read from the uninitialised buffer
idle_samples(adv) ==
    LET pkt == open_packet(adv.mfg_data, Len(adv.mfg_data))
        B(k) == IF Len(pkt.buffer) >= k THEN {pkt.buffer[k]} ELSE StaleBytes
    IN  IF pkt.rc = -1 THEN {}
        ELSE IF pkt.header = DATA_HEADER
        THEN {convert_temp_data_to_float(b0, b1) : b0 \in B(1), b1 \in B(2)}
        ELSE {}

\* the advertisements the discovery procedure reports
Reported(adv) ==
    /\ ~halted
    /\ disc.active
    /\ (disc.filter_policy = 1 => adv.addr \in ctrl_wl)

\* the calls of a handler's outcome, each with what it finds when it is
\* made: whether the discovery is running, and the white list
CallTrace(r) ==
    [k \in 1 .. Len(r.calls) |->
        [call |-> r.calls[k],
         disc_active |->
             disc.active /\ \A j \in 1 .. (k - 1) : r.calls[j] # "ble_gap_disc_cancel",
         white_list |->
             IF \E j \in 1 .. (k - 1) : r.calls[j] = "push_to_white_list"
             THEN r.wl.white_list ELSE white_list]]

DiscRecord(adv, r) ==
    [NoOp EXCEPT !.op = "disc", !.addr = adv.addr, !.rssi = adv.rssi,
                 !.uuids16 = adv.uuids16, !.mfg_data = adv.mfg_data,
                 !.ret = r.wl.ret, !.idx = r.wl.idx, !.connect = r.connect,
                 !.calls = CallTrace(r), !.after = Removed]

\* the effects of a handler's outcome: ble_gap_disc_cancel, the white-list
\* call, ble_gap_connect
DiscEffect(adv, r) ==
    /\ WlApply(r.wl)
    /\ disc' = IF \E k \in 1 .. Len(r.calls) : r.calls[k] = "ble_gap_disc_cancel"
               THEN [disc EXCEPT !.active = FALSE] ELSE disc
    /\ conn' = IF r.connect THEN [state |-> "connecting", peer |-> adv.addr] ELSE conn
    /\ last' = DiscRecord(adv, r)
    /\ UNCHANGED <<temp_data, g_device_mode, halted, timer_wakeup, led, ctrl_wl>>

\* BLE_GAP_EVENT_DISC in registration mode
DiscRegistration ==
    \E adv \in Advs :
        /\ Reported(adv)
        /\ g_device_mode = "REGISTRATION_MODE"
        /\ DiscEffect(adv, connect_if_interesting(adv))

\* BLE_GAP_EVENT_DISC in deletion mode
DiscDeletion ==
    \E adv \in Advs :
        /\ Reported(adv)
        /\ g_device_mode = "DELETION_MODE"
        /\ DiscEffect(adv, delete_if_reachable(adv))

\* BLE_GAP_EVENT_DISC in unspecified mode
DiscUnspecified ==
    \E adv \in Advs :
        /\ Reported(adv)
        /\ g_device_mode = "UNSPECIFIED_MODE"
        /\ \/ /\ idle_samples(adv) = {}
              /\ UNCHANGED temp_data
           \/ \E t \in idle_samples(adv) : push_temp_data(t)
        /\ last' = DiscRecord(adv, Ignore)
        /\ UNCHANGED <<wlvars, g_device_mode, halted, timer_wakeup, led, disc,
                       ctrl_wl, conn>>

\* BLE_GAP_EVENT_DISC, any mode, for an advertisement without manufacturer
\* data: fields.mfg_data is a null pointer, and the handler reads
\* fields.mfg_data[0] before it looks at the mode or the length.  The read
\* either returns something, and the handler goes on as in the three actions
\* above, or it traps: the chip resets with no wake-up source enabled
DiscNoMfgData ==
    \E adv \in Advs :
        /\ Reported(adv)
        /\ adv.mfg_data = <<>>
        /\ halted' = TRUE
        /\ disc' = DiscOff
        /\ conn' = NoConn
        /\ timer_wakeup' = FALSE
        /\ last' = DiscRecord(adv, Ignore)
        /\ UNCHANGED <<wlvars, temp_data, g_device_mode, led, ctrl_wl>>

(***************************************************************************)
(* main.c: the connection events.                                          *)
(***************************************************************************)
ConnStatuses == {0, 13}

ble_gap_terminate_dropped(peer) == NoConn

\* ble_gap_terminate(conn_handle, reason): the link to the peer is being
\* closed, BLE_GAP_EVENT_DISCONNECT follows
ble_gap_terminate(peer) == [state |-> "terminating", peer |-> peer]

\* BLE_GAP_EVENT_CONNECT with status 0: conn_desc is the descriptor of the
\* connection
ConnectOk ==
    /\ ~halted
    /\ conn.state = "connecting"
    /\ LET peer == conn.peer
           del == g_device_mode = "DELETION_MODE" /\ white_list_contains_addr(peer)
           r == IF del THEN remove_from_white_list_by_addr(peer)
                ELSE [WlFail EXCEPT !.ret = "none"]
       IN  /\ WlApply(r)
           /\ led' = IF g_device_mode = "REGISTRATION_MODE" THEN "blink_fast"
                     ELSE IF del /\ r.ret = "ESP_OK" THEN "blink_slow"
                     ELSE led
           /\ conn' = ble_gap_terminate(peer)
           /\ last' = [NoOp EXCEPT !.op = "connect", !.addr = peer, !.status = 0,
                                   !.ret = r.ret, !.idx = r.idx, !.after = Removed]
    /\ UNCHANGED <<temp_data, g_device_mode, halted, timer_wakeup, disc, ctrl_wl>>

\* BLE_GAP_EVENT_CONNECT with a status other than 0: no connection exists,
\* ble_gap_conn_find leaves conn_desc as it was declared, uninitialised, and
\* its peer_id_addr is handed to remove_from_white_list_by_addr
ConnectFailed ==
    /\ ~halted
    /\ conn.state = "connecting"
    /\ \E status \in ConnStatuses \ {0}, peer_id_addr \in StaleAddrs :
          LET r == remove_from_white_list_by_addr(peer_id_addr)
          IN  /\ WlApply(r)
              /\ last' = [NoOp EXCEPT !.op = "connect", !.addr = conn.peer,
                                      !.status = status, !.ret = r.ret,
                                      !.idx = r.idx, !.after = Removed]
    /\ conn' = NoConn
    /\ UNCHANGED <<temp_data, g_device_mode, halted, timer_wakeup, led, disc, ctrl_wl>>

Disconnect_rolls_back ==
    /\ ~halted
    /\ conn.state = "terminating"
    /\ conn' = NoConn
    /\ WlApply(remove_from_white_list_by_addr(conn.peer))
    /\ last' = [NoOp EXCEPT !.op = "disconnect", !.addr = conn.peer, !.after = Removed]
    /\ UNCHANGED <<temp_data, g_device_mode, halted, timer_wakeup, led, disc, ctrl_wl>>

\* BLE_GAP_EVENT_DISCONNECT
Disconnect ==
    /\ ~halted
    /\ conn.state = "terminating"
    /\ conn' = NoConn
    /\ last' = [NoOp EXCEPT !.op = "disconnect", !.addr = conn.peer, !.after = Removed]
    /\ UNCHANGED <<wlvars, temp_data, g_device_mode, halted, timer_wakeup, led,
                   disc, ctrl_wl>>

\* BLE_GAP_EVENT_DISC_COMPLETE: a discovery of limited duration has expired
DiscComplete ==
    /\ ~halted
    /\ disc.active
    /\ disc.duration # BLE_HS_FOREVER
    /\ led' = "off"
    /\ esp_deep_sleep_start
    /\ last' = [NoOp EXCEPT !.op = "disc_complete", !.ret = start_analysis,
                            !.idx = get_temp_score(temp_data), !.after = Removed]
    /\ UNCHANGED <<wlvars, temp_data, g_device_mode, timer_wakeup, ctrl_wl>>

(***************************************************************************)
(* main.c: the button callbacks.                                           *)
(***************************************************************************)
\* free(wl_addrs) on a heap whose block headers the copy has overwritten may
\* abort in on_long_button_press, after the mode, the indicator and the
\* allow-list have been set: the chip resets with no wake-up source enabled,
\* and app_main runs next
heap_abort ==
    /\ g_device_mode' = "DELETION_MODE"
    /\ led' = "on"
    /\ ctrl_wl' \in wl_addrs
    /\ timer_wakeup' = FALSE
    /\ halted' = TRUE
    /\ disc' = DiscOff
    /\ conn' = NoConn
    /\ UNCHANGED <<wlvars, temp_data>>

on_short_button_press ==
    /\ ~halted
    /\ last' = [NoOp EXCEPT !.op = "short", !.after = Removed]
    /\ UNCHANGED <<wlvars, devvars>>

on_medium_button_press_exits_any ==
    /\ ~halted
    /\ last' = [NoOp EXCEPT !.op = "medium", !.after = Removed]
    /\ IF g_device_mode # "REGISTRATION_MODE" /\ g_device_mode # "DELETION_MODE"
       THEN /\ g_device_mode' = "REGISTRATION_MODE"
            /\ led' = "on"
            /\ disc' = ble_gap_disc(BLE_HS_FOREVER, 0)
            /\ UNCHANGED <<wlvars, temp_data, halted, timer_wakeup, ctrl_wl, conn>>
       ELSE /\ timer_wakeup' = IF ~white_list_is_empty THEN TRUE ELSE timer_wakeup
            /\ led' = "off"
            /\ g_device_mode' = "UNSPECIFIED_MODE"
            /\ esp_deep_sleep_start
            /\ UNCHANGED <<wlvars, temp_data, ctrl_wl>>

on_medium_button_press ==
    /\ ~halted
    /\ last' = [NoOp EXCEPT !.op = "medium", !.after = Removed]
    /\ IF g_device_mode # "REGISTRATION_MODE" /\ g_device_mode # "DELETION_MODE"
       THEN /\ g_device_mode' = "REGISTRATION_MODE"
            /\ led' = "on"
            /\ disc' = ble_gap_disc(BLE_HS_FOREVER, 0)
            /\ UNCHANGED <<wlvars, temp_data, halted, timer_wakeup, ctrl_wl, conn>>
       ELSE IF g_device_mode = "REGISTRATION_MODE"
       THEN /\ timer_wakeup' = IF ~white_list_is_empty THEN TRUE ELSE timer_wakeup
            /\ led' = "off"
            /\ g_device_mode' = "UNSPECIFIED_MODE"
            /\ esp_deep_sleep_start
            /\ UNCHANGED <<wlvars, temp_data, ctrl_wl>>
       ELSE UNCHANGED <<wlvars, devvars>>

on_long_button_press_no_timer ==
    /\ ~halted
    /\ last' = [NoOp EXCEPT !.op = "long", !.after = Removed]
    /\ IF g_device_mode # "DELETION_MODE" /\ g_device_mode # "REGISTRATION_MODE"
          /\ ~white_list_is_empty
       THEN \/ /\ g_device_mode' = "DELETION_MODE"
               /\ led' = "on"
               /\ ctrl_wl' \in wl_addrs
               /\ disc' = ble_gap_disc(BLE_HS_FOREVER, 1)
               /\ UNCHANGED <<wlvars, temp_data, halted, timer_wakeup, conn>>
            \/ heap_abort
       ELSE IF g_device_mode = "DELETION_MODE"
       THEN /\ led' = "off"
            /\ g_device_mode' = "UNSPECIFIED_MODE"
            /\ esp_deep_sleep_start
            /\ UNCHANGED <<wlvars, temp_data, timer_wakeup, ctrl_wl>>
       ELSE UNCHANGED <<wlvars, devvars>>

on_long_button_press ==
    /\ ~halted
    /\ last' = [NoOp EXCEPT !.op = "long", !.after = Removed]
    /\ IF g_device_mode # "DELETION_MODE" /\ g_device_mode # "REGISTRATION_MODE"
          /\ ~white_list_is_empty
       THEN \/ /\ g_device_mode' = "DELETION_MODE"
               /\ led' = "on"
               /\ ctrl_wl' \in wl_addrs
               /\ disc' = ble_gap_disc(BLE_HS_FOREVER, 1)
               /\ UNCHANGED <<wlvars, temp_data, halted, timer_wakeup, conn>>
            \/ heap_abort
       ELSE IF g_device_mode = "DELETION_MODE"
       THEN /\ timer_wakeup' = IF ~white_list_is_empty THEN TRUE ELSE timer_wakeup
            /\ led' = "off"
            /\ g_device_mode' = "UNSPECIFIED_MODE"
            /\ esp_deep_sleep_start
            /\ UNCHANGED <<wlvars, temp_data, ctrl_wl>>
       ELSE UNCHANGED <<wlvars, devvars>>

(***************************************************************************)
(* main.c: app_main, run at every wake from deep sleep.                    *)
(***************************************************************************)
g_device_mode_kept == g_device_mode

\* the initialiser of g_device_mode, loaded at every boot
g_device_mode_init == "UNSPECIFIED_MODE"

\* the wake causes the sleep controller may report
WakeCauses == {"GPIO", "OTHER"} \cup (IF timer_wakeup THEN {"TIMER"} ELSE {})

\* the boot: ordinary memory is loaded with its initialisers, RTC memory is
\* kept, the wake-up sources are those enabled from now on
app_main(cause) ==
    /\ halted
    /\ cause \in WakeCauses
    /\ WlApply(wl_init(FALSE))
    /\ g_device_mode' = g_device_mode_init
    /\ conn' = NoConn
    /\ last' = [NoOp EXCEPT !.op = "wake", !.cause = cause, !.after = Removed]
    /\ UNCHANGED temp_data
    /\ IF cause = "GPIO"
       THEN /\ halted' = FALSE
            /\ led' = "off"
            /\ timer_wakeup' = FALSE
            /\ disc' = DiscOff
            /\ ctrl_wl' = {}
       ELSE IF cause = "TIMER"
       THEN \/ /\ halted' = FALSE
               /\ led' = "on"
               /\ ctrl_wl' \in wl_addrs'
               /\ disc' = ble_gap_disc(SCAN_DURATION_MS, 1)
               /\ timer_wakeup' = (get_white_list_len # 0)
            \* free(wl_addrs) aborts, the chip resets and halts
            \/ /\ halted' = TRUE
               /\ led' = "off"
               /\ timer_wakeup' = FALSE
               /\ disc' = DiscOff
               /\ ctrl_wl' = {}
       ELSE /\ halted' = TRUE
            /\ led' = "off"
            /\ timer_wakeup' = FALSE
            /\ disc' = DiscOff
            /\ ctrl_wl' = {}

Wake == \E cause \in {"GPIO", "TIMER", "OTHER"} : app_main(cause)

(***************************************************************************)
(* The device.                                                             *)
(***************************************************************************)
Init ==
    /\ wl_is_initialised = FALSE
    /\ white_list_len = 0
    /\ white_list = InitWhiteList
    /\ temp_data = 0
    /\ g_device_mode = "UNSPECIFIED_MODE"
    /\ halted = TRUE
    /\ timer_wakeup = FALSE
    /\ led = "off"
    /\ disc = DiscOff
    /\ ctrl_wl = {}
    /\ conn = NoConn
    /\ last = NoOp

Next ==
    \/ Wake
    \/ on_short_button_press
    \/ on_medium_button_press
    \/ on_long_button_press
    \/ DiscRegistration
    \/ DiscDeletion
    \/ DiscUnspecified
    \/ DiscNoMfgData
    \/ ConnectOk
    \/ ConnectFailed
    \/ Disconnect
    \/ DiscComplete

Spec == Init /\ [][Next]_vars

(***************************************************************************)
(* The device with its two tasks.  The button callbacks run in the task of *)
(* the button driver, ble_gap_event in the NimBLE host task, and main.c    *)
(* takes no lock: the host task may run while a callback is between two    *)
(* of its statements.  An exit press is given here with one event handled  *)
(* after its test of the white list and before its halt.                   *)
(***************************************************************************)
\* on_medium_button_press in registration mode: white_list_is_empty is
\* evaluated and the timer set accordingly, the host task handles
\* BLE_GAP_EVENT_DISC, then the callback goes on to halt the device
on_medium_button_press_preempted ==
    \E adv \in Advs :
        /\ Reported(adv)
        /\ g_device_mode = "REGISTRATION_MODE"
        /\ LET r == connect_if_interesting(adv)
           IN  /\ timer_wakeup' = IF ~white_list_is_empty THEN TRUE ELSE timer_wakeup
               /\ WlApply(r.wl)
               /\ last' = [DiscRecord(adv, r) EXCEPT !.op = "medium"]
        /\ led' = "off"
        /\ g_device_mode' = "UNSPECIFIED_MODE"
        /\ esp_deep_sleep_start
        /\ UNCHANGED <<temp_data, ctrl_wl>>

\* on_long_button_press in deletion mode: white_list_is_empty is evaluated
\* and the timer set accordingly, the host task handles
\* BLE_GAP_EVENT_CONNECT with status 0, then the callback goes on to halt
\* the device
on_long_button_press_preempted ==
    /\ ~halted
    /\ g_device_mode = "DELETION_MODE"
    /\ conn.state = "connecting"
    /\ LET peer == conn.peer
           del == white_list_contains_addr(peer)
           r == IF del THEN remove_from_white_list_by_addr(peer)
                ELSE [WlFail EXCEPT !.ret = "none"]
       IN  /\ timer_wakeup' = IF ~white_list_is_empty THEN TRUE ELSE timer_wakeup
           /\ WlApply(r)
           /\ last' = [NoOp EXCEPT !.op = "long", !.addr = peer, !.status = 0,
                                   !.ret = r.ret, !.idx = r.idx, !.after = Removed]
    /\ led' = "off"
    /\ g_device_mode' = "UNSPECIFIED_MODE"
    /\ esp_deep_sleep_start
    /\ UNCHANGED <<temp_data, ctrl_wl>>

NextRace ==
    \/ Next
    \/ on_medium_button_press_preempted
    \/ on_long_button_press_preempted

SpecRace == Init /\ [][NextRace]_vars

(***************************************************************************)
(* The white-list API driven directly.                                     *)
(***************************************************************************)
RegInit ==
    /\ WlApply(init_white_list)
    /\ last' = Op("init", NoUuid, ZeroAddr, init_white_list)
    /\ UNCHANGED devvars

RegDeinit ==
    /\ WlApply(deinit_white_list)
    /\ last' = Op("deinit", NoUuid, ZeroAddr, deinit_white_list)
    /\ UNCHANGED devvars

RegPush ==
    \E uuid \in Uuids, addr \in Addrs :
        /\ WlApply(push_to_white_list(uuid, addr))
        /\ last' = Op("push", uuid, addr, push_to_white_list(uuid, addr))
        /\ UNCHANGED devvars

RegRemoveByAddr ==
    \E addr \in Addrs :
        /\ WlApply(remove_from_white_list_by_addr(addr))
        /\ last' = Op("remove_by_addr", NoUuid, addr,
                      remove_from_white_list_by_addr(addr))
        /\ UNCHANGED devvars

RegRemoveByUuid ==
    \E uuid \in Uuids :
        /\ WlApply(remove_from_white_list_by_uuid16(uuid))
        /\ last' = Op("remove_by_uuid16", uuid, ZeroAddr,
                      remove_from_white_list_by_uuid16(uuid))
        /\ UNCHANGED devvars

\* a deep-sleep halt and the following boot, which calls init_white_list:
\* ordinary memory is loaded with its initialisers, RTC memory is kept
RegHaltWake ==
    /\ WlApply(wl_init(FALSE))
    /\ last' = Op("halt_wake", NoUuid, ZeroAddr, wl_init(FALSE))
    /\ UNCHANGED devvars

NextReg ==
    \/ RegInit
    \/ RegDeinit
    \/ RegPush
    \/ RegRemoveByAddr
    \/ RegRemoveByUuid
    \/ RegHaltWake

SpecReg == Init /\ [][NextReg]_vars

(***************************************************************************)
(* analysis_module.h driven directly: a sample of any two bytes is decoded *)
(* and stored, then analysed.                                              *)
(***************************************************************************)
Bytes == 0 .. (UINT8_MOD - 1)

TempPush ==
    /\ last.op = "none"
    /\ \E temp_msb, temp_lsb \in Bytes :
        /\ push_temp_data(convert_temp_data_to_float(temp_msb, temp_lsb))
        /\ last' = [NoOp EXCEPT !.op = "push_temp", !.mfg_data = <<temp_msb, temp_lsb>>]
        /\ UNCHANGED <<wlvars, g_device_mode, halted, timer_wakeup, led, disc,
                       ctrl_wl, conn>>

TempAnalysis ==
    /\ last.op = "push_temp"
    /\ last' = [last EXCEPT !.op = "analysis", !.ret = start_analysis,
                            !.idx = get_temp_score(temp_data)]
    /\ UNCHANGED <<wlvars, devvars>>

NextTemp ==
    \/ TempPush
    \/ TempAnalysis

SpecTemp == Init /\ [][NextTemp]_vars

(***************************************************************************)
(* Properties of the white list (checked under SpecReg).                   *)
(***************************************************************************)
\* the slots whose occupancy flag is set
OccupiedSlots == {i \in WlIdx : white_list[i].addr_is_empty = FALSE}

\* addr is the address of an occupied slot
AddrRegistered(addr) == \E i \in OccupiedSlots : white_list[i].device_addr = addr

\* no two occupied slots hold the same address
NoDupAddr ==
    \A i, j \in OccupiedSlots :
        i # j => white_list[i].device_addr # white_list[j].device_addr

\* C1, as claimed: in every reachable state the occupied-count equals the
\* number of slots whose occupancy flag is set.
C1_CountMatchesAlways == white_list_len = Cardinality(OccupiedSlots)

\* C1, amended: in every reachable state in which the white list is
\* initialised, the occupied-count equals the number of slots whose occupancy
\* flag is set (deinit_white_list zeroes the count and leaves the table).
C1_CountMatchesWhenInitialised ==
    wl_is_initialised => white_list_len = Cardinality(OccupiedSlots)

\* C1, witness: the boot after a halt has recounted two occupied slots.
C1_Witness ==
    /\ last.op = "halt_wake"
    /\ wl_is_initialised
    /\ white_list_len = 2
    /\ Cardinality(OccupiedSlots) = 2

\* C2, as claimed: after any sequence of inserts and removals with arbitrary
\* arguments no two occupied slots hold the same address.
C2_NoDupAlways == NoDupAddr

\* C2, amended: a step keeps the occupied addresses distinct unless it is a
\* successful insert of an address that white_list_contains_addr reported
\* before the call; push_to_white_list itself detects no duplicate.
C2_NoDupUnlessInsertOfContained ==
    [][ (NoDupAddr
         /\ ~(last'.op = "push" /\ last'.ret = "ESP_OK"
              /\ white_list_contains_addr(last'.addr)))
        => NoDupAddr' ]_vars

\* C2, witness: three slots are occupied by three distinct addresses, the
\* last of them just inserted.
C2_Witness ==
    /\ last.op = "push"
    /\ last.ret = "ESP_OK"
    /\ white_list_len = white_list_size
    /\ NoDupAddr

\* C3: the occupied-count never exceeds the capacity; every successful insert
\* raises the count and the number of occupied slots by one, and an insert
\* into a full white list fails and leaves table and count unchanged.
C3_NeverAboveCapacity ==
    /\ [](white_list_len <= white_list_size)
    /\ [][ last'.op = "push" =>
             /\ white_list_len = white_list_size =>
                   (last'.ret = "ESP_FAIL" /\ UNCHANGED wlvars)
             /\ last'.ret = "ESP_OK" =>
                   /\ white_list_len' = white_list_len + 1
                   /\ Cardinality(OccupiedSlots)' = Cardinality(OccupiedSlots) + 1
         ]_vars

\* C3, witness: an insert into a full white list has failed.
C3_Witness ==
    /\ last.op = "push"
    /\ last.ret = "ESP_FAIL"
    /\ white_list_len = white_list_size
    /\ Cardinality(OccupiedSlots) = white_list_size

\* C4: an insert for a category whose slot is occupied, or for a category
\* that has no slot, fails and leaves the table and the count unchanged.
C4_InsertOccupiedOrUnknownFails ==
    [][ (/\ last'.op = "push"
         /\ \/ ~(\E i \in WlIdx : white_list[i].device_uuid = last'.uuid)
            \/ \E i \in OccupiedSlots : white_list[i].device_uuid = last'.uuid)
        => (last'.ret = "ESP_FAIL" /\ UNCHANGED wlvars) ]_vars

\* C4, witness: an insert of another address for an occupied category has
\* failed although the white list was initialised and not full.
C4_Witness ==
    /\ last.op = "push"
    /\ last.ret = "ESP_FAIL"
    /\ wl_is_initialised
    /\ white_list_len < white_list_size
    /\ \E i \in OccupiedSlots :
          /\ white_list[i].device_uuid = last.uuid
          /\ white_list[i].device_addr # last.addr

\* the removals
RemoveOps == {"remove_by_addr", "remove_by_uuid16"}

\* a removal by category clears the slot of that category, a removal by
\* address the slot c that holds it (when Only(c) holds), and lowers the
\* count by one
C5_RemoveStep(Only(_)) ==
    /\ \A c \in OccupiedSlots :
          (/\ wl_is_initialised
           /\ \/ last'.op = "remove_by_uuid16"
                 /\ last'.uuid = white_list[c].device_uuid
              \/ last'.op = "remove_by_addr"
                 /\ last'.addr = white_list[c].device_addr
                 /\ Only(c))
          => /\ last'.ret = "ESP_OK"
             /\ last'.idx = c
             /\ white_list' = [white_list EXCEPT ![c].addr_is_empty = TRUE]
             /\ white_list_len' = white_list_len - 1
    \* the stale address is not reported after the removal
    /\ \A c \in OccupiedSlots :
          (last'.op \in RemoveOps /\ last'.ret = "ESP_OK" /\ last'.idx = c /\ Only(c))
          => ~(white_list_contains_addr(white_list[c].device_addr))'

\* an insert for the category of the slot the preceding removal cleared
\* succeeds, occupies that slot with the given address, raises the count by
\* one and leaves the other slots alone
C5_ReinsertStep ==
    (/\ Removed # -1
     /\ last'.op = "push"
     /\ last'.uuid = white_list[Removed].device_uuid)
    => /\ last'.ret = "ESP_OK"
       /\ white_list' = [white_list EXCEPT ![Removed].device_addr = last'.addr,
                                           ![Removed].addr_is_empty = FALSE]
       /\ white_list_len' = white_list_len + 1

\* no other occupied slot holds the address of slot c
C5_OnlyHolder(c) ==
    \A j \in OccupiedSlots \ {c} :
        white_list[j].device_addr # white_list[c].device_addr

C5_AnySlot(c) == TRUE

\* C5, as claimed: for every occupied category c, a removal by c's category
\* or by c's address clears slot c, the stale address is not reported until
\* the insert, and the insert for c restores the slot and the count.
C5_RemoveReinsertAlways == [][C5_RemoveStep(C5_AnySlot) /\ C5_ReinsertStep]_vars

\* C5, amended: the same, where removal by address and the silence of
\* white_list_contains_addr about the stale address are claimed only when no
\* other occupied slot holds c's address.
C5_RemoveReinsertWhenOnlyHolder ==
    [][C5_RemoveStep(C5_OnlyHolder) /\ C5_ReinsertStep]_vars

\* C5, witness: the slot cleared by the preceding removal has been occupied
\* again, with another address, beside a second occupied slot.
C5_Witness ==
    /\ last.op = "push"
    /\ last.ret = "ESP_OK"
    /\ last.after # -1
    /\ last.after = last.idx
    /\ white_list[last.idx].device_addr = last.addr
    /\ white_list_len = 2

\* C6, as claimed: while the white list is not initialised, the three
\* queries return false.
C6_QueriesFalseUninitialised ==
    ~wl_is_initialised =>
        /\ \A addr \in Addrs \cup {ZeroAddr} : white_list_contains_addr(addr) = FALSE
        /\ \A uuid \in Uuids : uuid_is_interesting(uuid) = FALSE
        /\ white_list_is_empty = FALSE

\* C6, amended: while the white list is not initialised,
\* white_list_contains_addr and uuid_is_interesting return false and
\* white_list_is_empty returns true, whatever the table holds.
C6_QueriesUninitialised ==
    ~wl_is_initialised =>
        /\ \A addr \in Addrs \cup {ZeroAddr} : white_list_contains_addr(addr) = FALSE
        /\ \A uuid \in Uuids : uuid_is_interesting(uuid) = FALSE
        /\ white_list_is_empty = TRUE

\* C6, witness: the white list has been deinitialised with two slots
\* occupied.
C6_Witness ==
    /\ last.op = "deinit"
    /\ last.ret = "ESP_OK"
    /\ ~wl_is_initialised
    /\ Cardinality(OccupiedSlots) = 2

(***************************************************************************)
(* Properties of the pairing state machine (checked under Spec).           *)
(***************************************************************************)
\* the advertisement or connection event handled by the step
DiscStep(mode) == g_device_mode = mode /\ last'.op = "disc"
ConnectStep(mode) == g_device_mode = mode /\ last'.op = "connect"

\* a connection to addr is requested by the step
ConnectRequested(addr) ==
    /\ last'.connect
    /\ conn.state = "none"
    /\ conn' = [state |-> "connecting", peer |-> addr]

NoConnectRequested == ~last'.connect /\ conn' = conn

\* the manufacturer data opens with header h
OpensWith(mfg_data, h) ==
    /\ open_packet(mfg_data, Len(mfg_data)).rc = 0
    /\ open_packet(mfg_data, Len(mfg_data)).header = h

\* uuid is the category of an unoccupied slot
FreeCategory(uuid) ==
    \E i \in WlIdx \ OccupiedSlots : white_list[i].device_uuid = uuid

\* k is the first position of uuids16 that holds the category of an
\* unoccupied slot
FirstFree(uuids16, k) ==
    /\ k \in 1 .. Len(uuids16)
    /\ FreeCategory(uuids16[k])
    /\ \A j \in 1 .. (k - 1) : ~FreeCategory(uuids16[j])

\* the enrolment offer of the step is to be accepted
C7_Accept ==
    /\ last'.rssi >= RSSI_ACCEPTABLE_LVL
    /\ OpensWith(last'.mfg_data, REG_HEADER)
    /\ \E k \in 1 .. Len(last'.uuids16) : FreeCategory(last'.uuids16[k])
    /\ ~AddrRegistered(last'.addr)

\* C7: in registration mode an advertisement causes an insert and a
\* connection request iff its rssi is not below the floor, its packet opens
\* with the enrolment header, an advertised category matches an unoccupied
\* slot and its address is not registered; the slot of the first such
\* category is then occupied by the advertiser's address.  Otherwise white
\* list and connection are unchanged; the sample is unchanged in every case.
C7_EnrolIffAcceptable ==
    [][ DiscStep("REGISTRATION_MODE") =>
          /\ temp_data' = temp_data
          /\ C7_Accept =>
                /\ ConnectRequested(last'.addr)
                /\ \E k \in 1 .. Len(last'.uuids16), i \in WlIdx :
                      /\ FirstFree(last'.uuids16, k)
                      /\ white_list[i].device_uuid = last'.uuids16[k]
                      /\ white_list' = [white_list EXCEPT
                                           ![i].device_addr = last'.addr,
                                           ![i].addr_is_empty = FALSE]
                /\ white_list_len' = white_list_len + 1
          /\ ~C7_Accept => (NoConnectRequested /\ UNCHANGED wlvars)
      ]_vars

\* C7, witness: an offer of three uuids, the second of which names an
\* occupied category, has been accepted for the third.
C7_Witness ==
    /\ last.op = "disc"
    /\ g_device_mode = "REGISTRATION_MODE"
    /\ last.connect
    /\ last.ret = "ESP_OK"
    /\ Len(last.uuids16) = 3
    /\ last.idx = 0
    /\ white_list[0].device_addr = last.addr
    /\ white_list_len = 2
    /\ conn.state = "connecting"

\* C8, as claimed: a connection event reporting failure in registration or
\* deletion mode leaves the peer's address in no occupied slot; a white list
\* that was empty before the accepted offer is empty again.
C8_FailedConnectRemovesPeer ==
    [][ (ConnectStep("REGISTRATION_MODE") \/ ConnectStep("DELETION_MODE"))
        /\ last'.status # 0
        => /\ \A peer \in Addrs :
                 peer = last'.addr => ~(AddrRegistered(peer))'
           /\ (g_device_mode = "REGISTRATION_MODE" /\ white_list_len = 1)
                 => (white_list_len' = 0 /\ OccupiedSlots' = {})
      ]_vars

\* the removal offer of the step is to be accepted
C9_Accept ==
    /\ last'.rssi >= RSSI_ACCEPTABLE_LVL
    /\ OpensWith(last'.mfg_data, DEL_HEADER)
    /\ AddrRegistered(last'.addr)

\* C9: in deletion mode an advertisement causes a connection request iff it
\* comes from a registered address with the removal header and rssi not
\* below the floor, and never changes the white list; the connection event
\* with status 0 that follows clears exactly the peer's slot and lowers the
\* count by one.
C9_RemoveOnConnect ==
    [][ /\ DiscStep("DELETION_MODE") =>
             /\ UNCHANGED wlvars
             /\ C9_Accept => ConnectRequested(last'.addr)
             /\ ~C9_Accept => NoConnectRequested
        /\ (ConnectStep("DELETION_MODE") /\ last'.status = 0) =>
             \E c \in OccupiedSlots :
                 /\ white_list[c].device_addr = last'.addr
                 /\ white_list' = [white_list EXCEPT ![c].addr_is_empty = TRUE]
                 /\ white_list_len' = white_list_len - 1
      ]_vars

\* C9, witness: in deletion mode the connection to one of two registered
\* peers has been established and its slot cleared.
C9_Witness ==
    /\ last.op = "connect"
    /\ last.status = 0
    /\ g_device_mode = "DELETION_MODE"
    /\ last.ret = "ESP_OK"
    /\ ~AddrRegistered(last.addr)
    /\ white_list_len = 1
    /\ Cardinality(OccupiedSlots) = 1

\* C10: a medium press in unspecified mode enters registration mode, starts
\* an unfiltered discovery of unlimited duration and turns the indicator on;
\* in registration mode it returns to unspecified mode, turns the indicator
\* off and halts; in deletion mode it changes nothing.  Registration mode is
\* entered by a medium press only, and left by a medium press or a boot only.
C10_MediumPress ==
    [][ /\ (last'.op = "medium" /\ g_device_mode = "UNSPECIFIED_MODE") =>
             /\ g_device_mode' = "REGISTRATION_MODE"
             /\ disc' = [active |-> TRUE, filter_policy |-> 0,
                         duration |-> BLE_HS_FOREVER]
             /\ led' = "on"
             /\ ~halted'
        /\ (last'.op = "medium" /\ g_device_mode = "REGISTRATION_MODE") =>
             /\ g_device_mode' = "UNSPECIFIED_MODE"
             /\ led' = "off"
             /\ halted'
        /\ (last'.op = "medium" /\ g_device_mode = "DELETION_MODE") =>
             UNCHANGED <<wlvars, devvars>>
        /\ (g_device_mode # "REGISTRATION_MODE" /\ g_device_mode' = "REGISTRATION_MODE")
             => last'.op = "medium"
        /\ (g_device_mode = "REGISTRATION_MODE" /\ g_device_mode' # "REGISTRATION_MODE")
             => last'.op \in {"medium", "wake"}
      ]_vars

\* C10, witness: registration mode has been left by a medium press after an
\* enrolment, and the device is halted.
C10_Witness ==
    /\ last.op = "medium"
    /\ halted
    /\ g_device_mode = "UNSPECIFIED_MODE"
    /\ led = "off"
    /\ ~white_list_is_empty

(***************************************************************************)
(* Properties of the modes, the halt and the stored sample (checked under  *)
(* Spec).                                                                  *)
(***************************************************************************)
\* the addresses of the occupied slots
OccupiedAddrs == {white_list[i].device_addr : i \in OccupiedSlots}

\* C11, as claimed: a long press in unspecified mode with a non-empty white
\* list enters deletion mode and starts a discovery of unlimited duration
\* restricted to the addresses of the occupied slots; with an empty white
\* list, or in registration mode, it changes nothing; deletion mode is
\* entered by a long press only, and never with an empty white list.
C11_LongPress ==
    [][ /\ (last'.op = "long" /\ g_device_mode = "UNSPECIFIED_MODE"
                              /\ OccupiedSlots # {}) =>
             /\ g_device_mode' = "DELETION_MODE"
             /\ disc' = [active |-> TRUE, filter_policy |-> 1,
                         duration |-> BLE_HS_FOREVER]
             /\ ctrl_wl' = OccupiedAddrs
             /\ ~halted'
        /\ (last'.op = "long" /\ g_device_mode = "UNSPECIFIED_MODE"
                              /\ OccupiedSlots = {}) =>
             UNCHANGED <<wlvars, devvars>>
        /\ (last'.op = "long" /\ g_device_mode = "REGISTRATION_MODE") =>
             UNCHANGED <<wlvars, devvars>>
        /\ (g_device_mode # "DELETION_MODE" /\ g_device_mode' = "DELETION_MODE")
             => (last'.op = "long" /\ OccupiedSlots # {})
      ]_vars

\* C12: after every wake the mode is the unspecified one, whatever it was
\* when the device went down, and no handler runs while the device is down.
C12_WakeResetsMode ==
    [][ /\ last'.op = "wake" => g_device_mode' = "UNSPECIFIED_MODE"
        /\ halted => last'.op = "wake"
      ]_vars

\* C12, witness: the device has woken by its timer and scans.
C12_Witness ==
    /\ last.op = "wake"
    /\ last.cause = "TIMER"
    /\ ~halted
    /\ disc.active
    /\ g_device_mode = "UNSPECIFIED_MODE"

\* C13: the step that takes the device down and the boot that follows both
\* leave the slot table and the stored sample as they are; the boot sets the
\* count to the number of occupied slots, so that every address of an
\* occupied slot is reported by white_list_contains_addr after it.
C13_HaltWakeKeepsTableAndSample ==
    [][ /\ (halted' /\ ~halted) => UNCHANGED <<white_list, temp_data>>
        /\ last'.op = "wake" =>
             /\ UNCHANGED <<white_list, temp_data>>
             /\ wl_is_initialised'
             /\ white_list_len' = Cardinality(OccupiedSlots)
             /\ \A addr \in Addrs :
                   AddrRegistered(addr) => (white_list_contains_addr(addr))'
      ]_vars

\* C13, witness: the device is awake again with two occupied slots and a
\* stored sample.
C13_Witness ==
    /\ last.op = "wake"
    /\ ~halted
    /\ white_list_len = 2
    /\ Cardinality(OccupiedSlots) = 2
    /\ temp_data # 0
    /\ \A i \in OccupiedSlots : white_list_contains_addr(white_list[i].device_addr)

\* the bytes a telemetry body holds at position k; a byte the body does not
\* hold adds nothing to the sample
BodyByte(body, k) == IF k <= Len(body) THEN body[k] ELSE 0

\* the sample a telemetry body decodes to
Decoded(body) == convert_temp_data_to_float(BodyByte(body, 1), BodyByte(body, 2))

\* C14, as claimed: in unspecified mode an advertisement whose packet opens
\* with the telemetry header overwrites the stored sample with its decoded
\* body; the discovery-complete event that follows computes the liferate of
\* the stored sample (NORMAL for 37.2) and halts.
C14_TelemetryStoredAndClassified ==
    [][ /\ (DiscStep("UNSPECIFIED_MODE") /\ OpensWith(last'.mfg_data, DATA_HEADER)) =>
             temp_data' =
                Decoded(open_packet(last'.mfg_data, Len(last'.mfg_data)).buffer)
        /\ (g_device_mode = "UNSPECIFIED_MODE" /\ last'.op = "disc_complete") =>
             /\ last'.ret = liferate(get_temp_score(temp_data))
             /\ temp_data = 37 * TEMP_UNIT + 51 => last'.ret = "NORMAL"
             /\ halted'
             /\ UNCHANGED temp_data
      ]_vars

\* the advertisement handled by the step is one open_packet fails for
Malformed ==
    last'.op = "disc" /\ open_packet(last'.mfg_data, Len(last'.mfg_data)).rc = -1

\* C19, as claimed: an advertisement for which open_packet fails is dropped
\* in every mode: white list, stored sample, mode and discovery are
\* unchanged, the device stays up and no connection is requested.
C19_MalformedDropped ==
    [][ Malformed =>
          /\ UNCHANGED <<wlvars, temp_data, g_device_mode, disc, halted>>
          /\ NoConnectRequested
      ]_vars

\* the advertisement handled by the step is below the floor
Weak == last'.op = "disc" /\ last'.rssi < RSSI_ACCEPTABLE_LVL

\* C20, as claimed: an advertisement below the floor changes neither the
\* white list nor the stored sample and requests no connection, in every
\* mode.
C20_WeakRejectedEverywhere ==
    [][ Weak => (UNCHANGED <<wlvars, temp_data>> /\ NoConnectRequested) ]_vars

\* C20, amended: an advertisement below the floor never changes the white
\* list and never requests a connection; in registration and deletion mode
\* it leaves the stored sample as it is, while in unspecified mode, where
\* the signal strength is not looked at, a telemetry packet of two body
\* bytes overwrites the stored sample with its decoded body.
C20_WeakRejectedWhenPairing ==
    [][ Weak =>
          /\ UNCHANGED wlvars
          /\ NoConnectRequested
          /\ g_device_mode \in {"REGISTRATION_MODE", "DELETION_MODE"} =>
                UNCHANGED temp_data
          /\ (/\ g_device_mode = "UNSPECIFIED_MODE"
              /\ OpensWith(last'.mfg_data, DATA_HEADER)
              /\ Len(last'.mfg_data) >= HEADER_SIZE + 2) =>
                temp_data' =
                   Decoded(open_packet(last'.mfg_data, Len(last'.mfg_data)).buffer)
      ]_vars

\* C20, witness: in deletion mode a removal offer of a registered address
\* has arrived below the floor, and no connection is being set up.
C20_Witness ==
    /\ last.op = "disc"
    /\ last.rssi < RSSI_ACCEPTABLE_LVL
    /\ g_device_mode = "DELETION_MODE"
    /\ OpensWith(last.mfg_data, DEL_HEADER)
    /\ AddrRegistered(last.addr)
    /\ last.addr \in ctrl_wl
    /\ ~last.connect
    /\ conn.state = "none"
    /\ disc.active

(***************************************************************************)
(* Properties of the decoder and the classifier (checked under SpecTemp).  *)
(***************************************************************************)
\* the stored sample has been analysed
Analysed == last.op = "analysis"

\* C15: the score of every sample the decoder produces follows the
\* partition: at most 35 gives 3, above 35 up to 36 gives 1, above 36 up to
\* 38 gives 0, above 38 up to 39 gives 1, above 39 gives 2.
C15_ScorePartition ==
    Analysed =>
        /\ temp_data <= 35 * TEMP_UNIT => last.idx = 3
        /\ (35 * TEMP_UNIT < temp_data /\ temp_data <= 36 * TEMP_UNIT) => last.idx = 1
        /\ (36 * TEMP_UNIT < temp_data /\ temp_data <= 38 * TEMP_UNIT) => last.idx = 0
        /\ (38 * TEMP_UNIT < temp_data /\ temp_data <= 39 * TEMP_UNIT) => last.idx = 1
        /\ temp_data > 39 * TEMP_UNIT => last.idx = 2

\* C15, witness: a sample of 38.5 has been given the score 1.
C15_Witness ==
    /\ Analysed
    /\ temp_data = 38 * TEMP_UNIT + 128
    /\ last.idx = 1

\* the scores at 35.0, 36.5, 38.0, 38.5, 39.0 and 40.0
ScoreAtOtherPoints ==
    /\ temp_data = 35 * TEMP_UNIT => last.idx = 3
    /\ temp_data = 36 * TEMP_UNIT + 128 => last.idx = 0
    /\ temp_data = 38 * TEMP_UNIT => last.idx = 0
    /\ temp_data = 38 * TEMP_UNIT + 128 => last.idx = 1
    /\ temp_data = 39 * TEMP_UNIT => last.idx = 1
    /\ temp_data = 40 * TEMP_UNIT => last.idx = 2

\* C16, as claimed: the score is 3 at 35.0, 0 at 36.0, 0 at 36.5, 0 at 38.0,
\* 1 at 38.5, 1 at 39.0 and 2 at 40.0.
C16_ScorePointsClaimed ==
    Analysed => (ScoreAtOtherPoints /\ (temp_data = 36 * TEMP_UNIT => last.idx = 0))

\* C16, amended: the score is 3 at 35.0, 1 at 36.0, 0 at 36.5, 0 at 38.0,
\* 1 at 38.5, 1 at 39.0 and 2 at 40.0.
C16_ScorePoints ==
    Analysed => (ScoreAtOtherPoints /\ (temp_data = 36 * TEMP_UNIT => last.idx = 1))

\* C16, witness: a sample of 36.0 has been given the score 1.
C16_Witness ==
    /\ Analysed
    /\ last.mfg_data = <<36, 0>>
    /\ temp_data = 36 * TEMP_UNIT
    /\ last.idx = 1

\* C17: the liferate of every stored sample is NORMAL iff its score is 0,
\* CRITICAL iff its score is 1 or 2, VERY_CRITICAL iff its score is 3;
\* UNDEFINED is the liferate of the score -1 only, which no decoded sample
\* has.
C17_LiferateOfScore ==
    /\ Analysed =>
          /\ last.idx \in 0 .. TEMP_MAX_SCORE
          /\ last.ret = "NORMAL" <=> last.idx = 0
          /\ last.ret = "CRITICAL" <=> last.idx \in {1, 2}
          /\ last.ret = "VERY_CRITICAL" <=> last.idx = 3
          /\ last.ret # "UNDEFINED"
    /\ liferate(-1) = "UNDEFINED"
    /\ \A s \in 0 .. TEMP_MAX_SCORE : liferate(s) # "UNDEFINED"

\* C17, witness: a sample above 39 has the score 2 and the liferate
\* CRITICAL.
C17_Witness ==
    /\ Analysed
    /\ temp_data = 40 * TEMP_UNIT
    /\ last.idx = 2
    /\ last.ret = "CRITICAL"

\* twice the value, in units of 1/256, that the bits of fraction add when bit
\* i, counted from the most significant one, adds 1 / 2^(i + shift)
RECURSIVE FractionHalves(_, _, _)
FractionHalves(fraction, shift, i) ==
    IF i > 7 THEN 0
    ELSE ((fraction \div (2 ^ (7 - i))) % 2) * ((2 * TEMP_UNIT) \div (2 ^ (i + shift)))
         + FractionHalves(fraction, shift, i + 1)

\* the stored sample is sign x (integer + fractional) of the two bytes
\* decoded, bit i of the fraction adding 1 / 2^(i + shift)
DecodedWithShift(shift) ==
    last.op \in {"push_temp", "analysis"} =>
        LET magnitude == last.mfg_data[1]
            fraction == last.mfg_data[2]
            sign == IF magnitude >= 128 THEN -1 ELSE 1
        IN  2 * temp_data =
               sign * ((magnitude % 128) * 2 * TEMP_UNIT
                       + FractionHalves(fraction, shift, 0))

\* C18, as claimed: decode returns sign x (integer + fractional), where bit i
\* of the fraction adds 1 / 2^(i + 2).
C18_DecodeClaimed == DecodedWithShift(2)

\* C18, amended: decode returns sign x (integer + fractional), where bit i
\* of the fraction adds 1 / 2^(i + 1).
C18_Decode == DecodedWithShift(1)

\* C18, witness: the bytes 0xA5 0x33 have been decoded to -37.2.
C18_Witness ==
    /\ last.op = "push_temp"
    /\ last.mfg_data = <<165, 51>>
    /\ temp_data = -(37 * TEMP_UNIT + 51)

(***************************************************************************)
(* The order of a handler's calls (checked under Spec).                    *)
(***************************************************************************)
\* the position of the first call of the name in the trace, or 0
CallAt(trace, name) ==
    IF \E k \in 1 .. Len(trace) : trace[k].call = name
    THEN CHOOSE k \in 1 .. Len(trace) :
             /\ trace[k].call = name
             /\ \A j \in 1 .. (k - 1) : trace[j].call # name
    ELSE 0

\* addr is the address of an occupied slot of the table wl
RegisteredIn(wl, addr) ==
    \E i \in WlIdx : ~wl[i].addr_is_empty /\ wl[i].device_addr = addr

\* C21: an advertisement accepted in registration mode cancels the
\* discovery, then enters the peer in the white list, then requests the
\* connection; one accepted in deletion mode cancels the discovery before it
\* requests the connection.  No connection is requested while the discovery
\* is running, and when one is requested in registration mode the peer's
\* address is in an occupied slot.
C21_CancelInsertConnect ==
    [][last'.op = "disc" /\ last'.connect =>
          LET trace == last'.calls
              cancel == CallAt(trace, "ble_gap_disc_cancel")
              push == CallAt(trace, "push_to_white_list")
              connect == CallAt(trace, "ble_gap_connect")
          IN  /\ 0 < cancel
              /\ cancel < connect
              /\ ~trace[connect].disc_active
              /\ ~disc'.active
              /\ conn' = [state |-> "connecting", peer |-> last'.addr]
              /\ g_device_mode = "REGISTRATION_MODE" =>
                    /\ cancel < push
                    /\ push < connect
                    /\ ~RegisteredIn(trace[push].white_list, last'.addr)
                    /\ RegisteredIn(trace[connect].white_list, last'.addr)
                    /\ RegisteredIn(white_list', last'.addr)
              /\ g_device_mode = "DELETION_MODE" => push = 0
    ]_vars

\* C21, witness: an advertisement has been accepted in registration mode;
\* the discovery is cancelled, the peer is in the white list and the
\* connection is requested.
C21_Witness ==
    /\ last.op = "disc"
    /\ last.connect
    /\ g_device_mode = "REGISTRATION_MODE"
    /\ Len(last.calls) = 3
    /\ ~disc.active
    /\ AddrRegistered(last.addr)
    /\ conn = [state |-> "connecting", peer |-> last.addr]

(***************************************************************************)
(* The connection events (checked under Spec).                             *)
(***************************************************************************)
\* C22, as claimed: after any BLE_GAP_EVENT_CONNECT, with status 0 or not
\* and in any mode, the termination of that connection is requested.
C22_TerminateAlways ==
    [][last'.op = "connect" => conn' = [state |-> "terminating", peer |-> conn.peer]]_vars

\* C22, amended: after a BLE_GAP_EVENT_CONNECT with status 0, in any mode,
\* the termination of that connection is requested; after one with another
\* status no connection exists and none is requested.
C22_TerminateOnSuccess ==
    [][last'.op = "connect" =>
          /\ last'.status = 0 => conn' = [state |-> "terminating", peer |-> conn.peer]
          /\ last'.status # 0 => conn' = NoConn
    ]_vars

\* C22, witness: a connection has been established in deletion mode and its
\* termination is requested.
C22_Witness ==
    /\ last.op = "connect"
    /\ last.status = 0
    /\ g_device_mode = "DELETION_MODE"
    /\ conn.state = "terminating"
    /\ conn.peer = last.addr

ExitPress ==
    \/ last'.op = "medium" /\ g_device_mode = "REGISTRATION_MODE"
    \/ last'.op = "long" /\ g_device_mode = "DELETION_MODE"

\* C24: the medium press that leaves registration mode and the long press
\* that leaves deletion mode enable the timer wake-up if a slot is occupied
\* at that moment, turn the indicator off, set the unspecified mode and
\* halt the device, with the white list and the sample as they were and
\* with no event handled in between: discovery and connection are gone.
C24_ExitArmsAndHalts ==
    [][ExitPress =>
          /\ OccupiedSlots # {} => timer_wakeup'
          /\ OccupiedSlots = {} => timer_wakeup' = timer_wakeup
          /\ led' = "off"
          /\ g_device_mode' = "UNSPECIFIED_MODE"
          /\ halted'
          /\ disc' = DiscOff
          /\ conn' = NoConn
          /\ white_list' = white_list
          /\ temp_data' = temp_data
    ]_vars

\* C24, witness: deletion mode has been left by a long press with a slot
\* occupied; the device is halted with the timer wake-up enabled.
C24_Witness ==
    /\ last.op = "long"
    /\ halted
    /\ g_device_mode = "UNSPECIFIED_MODE"
    /\ led = "off"
    /\ OccupiedSlots # {}
    /\ timer_wakeup

C26_NoAddressTwice ==
    /\ NoDupAddr
    /\ \A addr \in Addrs :
          Cardinality({i \in OccupiedSlots : white_list[i].device_addr = addr}) <= 1

\* C26, witness: with a peer entered, the same peer has offered enrollment
\* under a category whose slot is free, above the signal floor, and has not
\* been entered again.
C26_Witness ==
    /\ last.op = "disc"
    /\ g_device_mode = "REGISTRATION_MODE"
    /\ AddrRegistered(last.addr)
    /\ last.rssi >= RSSI_ACCEPTABLE_LVL
    /\ OpensWith(last.mfg_data, REG_HEADER)
    /\ \E k \in 1 .. Len(last.uuids16) : FreeCategory(last.uuids16[k])
    /\ ~last.connect
    /\ Cardinality(OccupiedSlots) = 1

HaltStep ==
    \/ ExitPress
    \/ last'.op = "disc_complete"
    \/ last'.op = "wake" /\ last'.cause = "OTHER"

\* C28, as claimed: whenever the device halts with a slot occupied, by an
\* exit press, at the end of a discovery in any mode or after a wake of
\* another cause, the timer wake-up is enabled.
C28_HaltArmsTimer ==
    [][HaltStep /\ OccupiedSlots # {} => halted' /\ timer_wakeup']_vars

=============================================================================
